---- MODULE Spec2Model ----
(***************************************************************************)
(* Workspace event normalisation of ironbar: the Hyprland adapter          *)
(* (clients/compositor/hyprland.rs, "Adapter A"), the Sway adapter         *)
(* (clients/compositor/sway.rs, "Adapter B"), the tokio broadcast channel  *)
(* both send on, and the receivers handed out by                           *)
(* subscribe_workspace_change().                                           *)
(*                                                                         *)
(* The compositor is the environment: it changes its own state and emits   *)
(* native events, which wait in `pending` until the listener observes      *)
(* them.  A query made by a handler or by subscribe reads the compositor   *)
(* state of that moment, which may be newer than the event being handled.  *)
(*                                                                         *)
(* The listener library is not part of the repository.  The code guards    *)
(* its callbacks with a mutex "to ensure events don't run at the same      *)
(* time" (hyprland.rs:37), so the model lets up to NCtx callbacks be in    *)
(* flight: they are entered in the order the events were observed, and a   *)
(* callback whose first statement takes the guard is entered only when the *)
(* guard is free.                                                          *)
(***************************************************************************)
EXTENDS Integers, Sequences, FiniteSets, TLC

\* ------------------------------------------------------------- bounds
MaxEvents == 2      \* native events the compositor emits in one run
MaxSubs == 2        \* calls of subscribe_workspace_change() in one run
NCtx == 2           \* listener callbacks that may be in flight at once

\* ---------------------------------------------------- program constants
Capacity == 16      \* channel(16)

\* ------------------------------------------------------ the data model
None == << >>
Some(x) == << x >>
IsSome(o) == Len(o) = 1
Unwrap(o) == o[1]

\* Hyprland workspace handles, named by their numeric id.  1 and 2 are
\* regular workspaces, whose name is their number; -3 is a named workspace.
HWorkspaces == {1, 2, -3}
Monitors == {"M1", "M2"}

\* i32::to_string / format!("{}", id)
IdToString(n) ==
    CASE n = 1 -> "1"
      [] n = 2 -> "2"
      [] n = -3 -> "-3"

\* HWorkspace.name
HName(w) ==
    CASE w = 1 -> "1"
      [] w = 2 -> "2"
      [] w = -3 -> "web"

Focused == "Focused"
Hidden == "Hidden"
Visible(b) == IF b THEN "Visible(true)" ELSE "Visible(false)"

VARIABLES
    adapter,     \* "A" (Hyprland) or "B" (Sway): chosen once per process
    hexists,     \* compositor: the workspaces that exist
    hactive,     \* compositor: the active workspace
    hmon,        \* compositor: the monitor of each workspace
    monActive,   \* compositor: each monitor's active workspace (0: none)
    pending,     \* native events emitted and not yet observed by the listener
    nevents,     \* native events emitted so far
    listener,    \* "none", "starting", "running", "failed", "panicked" or "ended"
    active,      \* Adapter A's cache of the active workspace (an Option)
    seeded,      \* the value the cache was seeded with (an Option)
    guard,       \* holder of the callbacks' mutex `lock` (0: free)
    h,           \* the callback contexts
    log,         \* every value sent on the broadcast channel, in order
    src,         \* for each value of log, the native event that produced it (0: subscribe)
    sub,         \* the receivers handed out by subscribe_workspace_change()
    ui,          \* the workspaces module's widget: buttons, button map, container
    fed,         \* the updates the widget's handler has been given last
    once,        \* the lazy static holding the adapter: "new", "running" or "done"
    made,        \* the adapters, channels and listener tasks created so far
    caller,      \* the callers of get_client() / get_sub_client()
    ctl,         \* the module's controller task that serves focus requests
    requests     \* the names sent by clicked buttons and not yet received

vars == << adapter, hexists, hactive, hmon, monActive, pending, nevents,
           listener, active, seeded, guard, h, log, src, sub, ui, fed,
           once, made, caller, ctl, requests >>

\* The bar's side of the channel: the state of the workspaces module, the
\* lazy static and the callers that ask for the adapter.
barside == << ui, fed, once, made, caller, ctl, requests >>

compositor == << hexists, hactive, hmon, monActive >>

\* ---------------------------------------------------- Adapter A: queries

\* A native workspace handle as a query returns it (hyprland::data::Workspace).
HWorkspace(w) == [id |-> w, name |-> HName(w), monitor |-> hmon[w]]

\* The enumeration order of the workspaces a query returns.
Rank(w) == IF w = 1 THEN 1 ELSE IF w = 2 THEN 2 ELSE 3

RECURSIVE SeqOfSet(_)
SeqOfSet(S) ==
    IF S = {} THEN << >>
    ELSE LET w == CHOOSE x \in S : \A y \in S : Rank(x) <= Rank(y)
         IN << HWorkspace(w) >> \o SeqOfSet(S \ {w})

\* Workspaces::get()
WorkspacesGet == SeqOfSet(hexists)

\* get_workspace_id(): WorkspaceType::Regular(name) => WorkspaceId(name)
get_workspace_id(name) == name

\* create_is_visible(): is the workspace some monitor's active workspace
create_is_visible(hw) == \E m \in Monitors : monActive[m] = hw.id

\* impl From<(Visibility, HWorkspace)> for Workspace
WorkspaceFrom(visibility, hw) ==
    [id |-> IdToString(hw.id), name |-> hw.name, monitor |-> hw.monitor,
     visibility |-> visibility]

\* Mutant of VisibilityFrom: the comparison with the active name is lost.
VisibilityFrom_never_focused(hw, active_name, is_visible) ==
    IF is_visible THEN Visible(TRUE) ELSE Hidden

\* impl From<(&HWorkspace, Option<&str>, F)> for Visibility
VisibilityFrom(hw, active_name, is_visible) ==
    IF Some(hw.name) = active_name THEN Focused
    ELSE IF is_visible THEN Visible(TRUE)
    ELSE Hidden

\* Option<&Workspace>::map(|w| w.name)
NameOf(o) == IF IsSome(o) THEN Some(Unwrap(o).name) ELSE None

\* EventClient::get_workspace(id, active)
get_workspace(id, act) ==
    LET found == { w \in hexists : IdToString(w) = id }
    IN IF found = {} THEN None
       ELSE LET hw == HWorkspace(CHOOSE w \in found : TRUE)
            IN Some(WorkspaceFrom(
                   VisibilityFrom(hw, NameOf(act), create_is_visible(hw)), hw))

\* EventClient::get_active_workspace()
get_active_workspace == WorkspaceFrom(Focused, HWorkspace(hactive))

\* ------------------------------------------------------------ messages
Init_(list) == [type |-> "Init", list |-> list]
Add(w) == [type |-> "Add", ws |-> w]
Update(w) == [type |-> "Update", ws |-> w]
Move(w) == [type |-> "Move", ws |-> w]
Focus(old, new) == [type |-> "Focus", old |-> old, new |-> new]
Remove(name) == [type |-> "Remove", name |-> name]

\* Mutant of AdapterReceivers: the adapter keeps no receiver of its own.
AdapterReceivers_none == {}

\* The receivers the adapter keeps for itself: the field _workspace_rx.
AdapterReceivers == { << "_workspace_rx", 0 >> }

\* Sender::send: the value is stored for every receiver; the sender never
\* waits for one.
Send(msgs, e) ==
    /\ log' = log \o msgs
    /\ src' = src \o [i \in 1..Len(msgs) |-> e]

\* ------------------------------------------------- Adapter B: conversions

\* The node a Sway workspace event carries (swayipc Node), and the workspace
\* get_workspaces() returns (swayipc Workspace): both built from the
\* compositor state of the moment.
Node(w, act, mon, monAct) ==
    [id |-> w, name |-> Some(HName(w)), output |-> Some(mon[w]),
     focused |-> (w = act),
     visible |-> Some(\E m \in Monitors : monAct[m] = w)]

SwayWorkspace(w) ==
    [id |-> w, name |-> HName(w), output |-> hmon[w],
     focused |-> (w = hactive),
     visible |-> (\E m \in Monitors : monActive[m] = w)]

\* Option::unwrap_or_default() of a String, Option::unwrap_or(false) of a bool
UnwrapOrDefault(o) == IF IsSome(o) THEN Unwrap(o) ELSE ""
UnwrapOrFalse(o) == IF IsSome(o) THEN Unwrap(o) ELSE FALSE

\* impl From<&Node> for Visibility
VisibilityFromNode(node) ==
    IF node.focused THEN Focused
    ELSE IF UnwrapOrFalse(node.visible) THEN Visible(TRUE)
    ELSE Hidden

\* impl From<Node> for Workspace
WorkspaceFromNode(node) ==
    [id |-> IdToString(node.id), name |-> UnwrapOrDefault(node.name),
     monitor |-> UnwrapOrDefault(node.output),
     visibility |-> VisibilityFromNode(node)]

\* impl From<&swayipc_async::Workspace> for Visibility
VisibilityFromSway(w) ==
    IF w.focused THEN Focused
    ELSE IF w.visible THEN Visible(TRUE)
    ELSE Hidden

\* impl From<swayipc_async::Workspace> for Workspace
WorkspaceFromSway(w) ==
    [id |-> IdToString(w.id), name |-> w.name, monitor |-> w.output,
     visibility |-> VisibilityFromSway(w)]

\* The outcome of a panic (todo!(), a failed expect()).
Panic == [type |-> "panic"]

\* Mutant of WorkspaceUpdateFrom: 'move' is left to the default arm.
WorkspaceUpdateFrom_move_as_update(event) ==
    CASE event.change = "init" ->
            IF IsSome(event.current)
            THEN Add(WorkspaceFromNode(Unwrap(event.current))) ELSE Panic
      [] event.change = "empty" -> Panic
      [] event.change = "focus" -> Panic
      [] OTHER ->
            IF IsSome(event.current)
            THEN Update(WorkspaceFromNode(Unwrap(event.current))) ELSE Panic

\* impl From<WorkspaceEvent> for WorkspaceUpdate
WorkspaceUpdateFrom(event) ==
    CASE event.change = "init" ->
            IF IsSome(event.current)
            THEN Add(WorkspaceFromNode(Unwrap(event.current))) ELSE Panic
      [] event.change = "empty" -> Panic
      [] event.change = "focus" -> Panic
      [] event.change = "move" ->
            IF IsSome(event.current)
            THEN Move(WorkspaceFromNode(Unwrap(event.current))) ELSE Panic
      [] OTHER ->
            IF IsSome(event.current)
            THEN Update(WorkspaceFromNode(Unwrap(event.current))) ELSE Panic

\* ----------------------------------- the workspaces module: the widget
\* The state into_widget() keeps: the buttons created so far (a button is
\* known by its position in `buttons`), the container's children in order,
\* button_map from workspace id to button, and has_initialized.

\* Visibility::is_visible(): true for Focused and Visible(true)
is_visible(visibility) == visibility \in {Focused, Visible(TRUE)}

\* create_button(name, visibility, ..): the widget name and the style classes
create_button(name, visibility) ==
    [name |-> name,
     classes |-> {"item"}
                   \cup (IF is_visible(visibility) THEN {"visible"} ELSE {})
                   \cup (IF visibility = Focused THEN {"focused"} ELSE {})]

\* The order of the widget names under String::cmp.
StrRank(s) ==
    CASE s = "" -> 0
      [] s = "1" -> 1
      [] s = "2" -> 2
      [] OTHER -> 3

\* sort_by is stable: a button goes behind those that do not compare greater.
RECURSIVE InsertSorted(_, _, _)
InsertSorted(sorted, b, buttons) ==
    IF sorted = << >> THEN << b >>
    ELSE IF StrRank(buttons[Head(sorted)].name) <= StrRank(buttons[b].name)
         THEN << Head(sorted) >> \o InsertSorted(Tail(sorted), b, buttons)
         ELSE << b >> \o sorted

\* reorder_workspaces(container): the children sorted by widget name
RECURSIVE reorder_workspaces(_, _)
reorder_workspaces(children, buttons) ==
    IF children = << >> THEN << >>
    ELSE InsertSorted(
             reorder_workspaces(SubSeq(children, 1, Len(children) - 1), buttons),
             children[Len(children)], buttons)

\* WorkspacesModule::show_workspace_check(output, work)
show_workspace_check(cfg, work) ==
    /\ (work.visibility = Focused \/ work.name \notin cfg.hidden)
    /\ (cfg.all_monitors \/ cfg.output_name = work.monitor)

\* create_button(..) followed by container.add(&item)
Created(u, name, visibility) ==
    [u EXCEPT !.buttons = Append(@, create_button(name, visibility)),
              !.container = Append(@, Len(u.buttons) + 1)]

\* if self.sort == SortOrder::Alphanumeric { reorder_workspaces(&container) }
Reordered(u) ==
    IF u.cfg.sort = "alphanumeric"
    THEN [u EXCEPT !.container = reorder_workspaces(@, u.buttons)]
    ELSE u

\* button_map.insert(id, item)
Inserted(u, id, b) ==
    [u EXCEPT !.button_map =
        [k \in DOMAIN @ \cup {id} |-> IF k = id THEN b ELSE @[k]]]

\* container.remove(item)
ContainerRemove(u, b) ==
    [u EXCEPT !.container = SelectSeq(@, LAMBDA x : x # b)]

\* The Init arm's loop: `for workspace in &workspaces`
RECURSIVE AddAll(_, _)
AddAll(u, list) ==
    IF list = << >> THEN u
    ELSE LET w == Head(list)
         IN AddAll(IF show_workspace_check(u.cfg, w)
                   THEN Inserted(Created(u, w.name, w.visibility), w.id,
                                 Len(u.buttons) + 1)
                   ELSE u,
                   Tail(list))

\* Mutant of OnInit: the buttons are created for every Init.
OnInit_every_time(u, list) ==
    [Reordered(AddAll(u, list)) EXCEPT !.has_initialized = TRUE]

\* WorkspaceUpdate::Init(workspaces) => if !has_initialized { .. }
OnInit(u, list) ==
    IF ~u.has_initialized
    THEN [Reordered(AddAll(u, list)) EXCEPT !.has_initialized = TRUE]
    ELSE u

\* WorkspaceUpdate::Focus { old, new }
OnFocus(u, old, new) ==
    LET u1 == IF IsSome(old) /\ Unwrap(old).id \in DOMAIN u.button_map
              THEN [u EXCEPT !.buttons[u.button_map[Unwrap(old).id]].classes =
                        @ \ ((IF new.monitor = Unwrap(old).monitor
                              THEN {"visible"} ELSE {}) \cup {"focused"})]
              ELSE u
    IN IF new.id \in DOMAIN u1.button_map
       THEN [u1 EXCEPT !.buttons[u1.button_map[new.id]].classes =
                @ \cup {"visible", "focused"}]
       ELSE u1

\* WorkspaceUpdate::Update(workspace)
OnUpdate(u, workspace) ==
    LET u1 == IF workspace.id \in DOMAIN u.button_map
              THEN ContainerRemove(u, u.button_map[workspace.id])
              ELSE u
        u2 == Reordered(Created(u1, workspace.name, workspace.visibility))
    IN IF u.cfg.all_monitors \/ workspace.monitor = u.cfg.output_name
       THEN IF workspace.id # ""
            THEN Inserted(u2, workspace.id, Len(u1.buttons) + 1)
            ELSE u2
       ELSE u1

\* WorkspaceUpdate::Add(workspace); fav_names stays empty
OnAdd(u, workspace) ==
    LET u1 == Reordered(Created(u, workspace.name, workspace.visibility))
    IN IF show_workspace_check(u.cfg, workspace)
       THEN IF workspace.id # ""
            THEN Inserted(u1, workspace.id, Len(u.buttons) + 1)
            ELSE u1
       ELSE u

\* WorkspaceUpdate::Move(workspace)
OnMove(u, workspace) ==
    LET u1 == Reordered(Created(u, workspace.name, workspace.visibility))
    IN IF workspace.name \notin u.cfg.hidden /\ ~u.cfg.all_monitors
       THEN IF workspace.monitor = u.cfg.output_name
            THEN IF workspace.name # ""
                 THEN Inserted(u1, workspace.id, Len(u.buttons) + 1)
                 ELSE u1
            ELSE IF workspace.id \in DOMAIN u.button_map
                 THEN ContainerRemove(u, u.button_map[workspace.id])
                 ELSE u
       ELSE u

\* WorkspaceUpdate::Remove{name}: the button is looked up by the name as id
OnRemove(u, name) ==
    IF name \in DOMAIN u.button_map
    THEN ContainerRemove(u, u.button_map[name])
    ELSE u

\* The closure given to context.widget_rx.attach
widget_rx_handler(u, event) ==
    CASE event.type = "Init" -> OnInit(u, event.list)
      [] event.type = "Focus" -> OnFocus(u, event.old, event.new)
      [] event.type = "Update" -> OnUpdate(u, event.ws)
      [] event.type = "Add" -> OnAdd(u, event.ws)
      [] event.type = "Move" -> OnMove(u, event.ws)
      [] event.type = "Remove" -> OnRemove(u, event.name)

\* into_widget(): the widget before any update
NewUi(cfg) ==
    [cfg |-> cfg, buttons |-> << >>, container |-> << >>,
     button_map |-> << >>, has_initialized |-> FALSE]

\* A module configuration: output M1, this monitor only, nothing hidden,
\* sorted by name (SortOrder::default()).
DefaultConfig ==
    [output_name |-> "M1", all_monitors |-> FALSE, hidden |-> {},
     sort |-> "alphanumeric"]

NothingFed == [prev |-> NewUi(DefaultConfig), last |-> << >>]

\* spawn_controller(): the task that serves the focus requests, started
ControllerStarted == [pc |-> "running", served |-> 0, errors |-> 0, lost |-> 0]

\* --------------------------------------------------- the lazy static
NCallers == 3       \* tasks that call get_client() / get_sub_client()
MaxCalls == 4       \* calls of get_client() / get_sub_client() in one run

\* CLIENT / SUB_CLIENT once its initializer has run: one adapter, one
\* channel, one listener task.
OneOfEach == [clients |-> 1, channels |-> 1, tasks |-> 1, calls |-> 0]
NoneYet == [clients |-> 0, channels |-> 0, tasks |-> 0, calls |-> 0]

\* A caller that holds the reference get_client() returned to it.
Holding == [pc |-> "has", ref |-> 1]
NotCalling == [pc |-> "idle", ref |-> 0]

\* ------------------------------------------------------- initial state
Idle == [pc |-> "idle", ev |-> None, ws |-> None, todo |-> << >>,
         entry |-> None, out |-> << >>, queried |-> << >>, list |-> << >>]

NoSub == [pc |-> "none", start |-> 0, pos |-> 0, got |-> << >>, skipped |-> {},
          end |-> 0]

\* The receivers of the channel that are alive.
Receivers ==
    AdapterReceivers
        \cup { << "rx", s >> : s \in { r \in DOMAIN sub : sub[r].pc \in {"subscribed", "live"} } }

\* Sender::send returns an error when the channel has no receiver.
SendOk == Receivers # {}

Init ==
    /\ adapter \in {"A", "B"}
    /\ hexists \in {{1, 2}, {1, 2, -3}}
    /\ hactive \in hexists \ {2}
    /\ hmon = [w \in HWorkspaces |-> IF w = -3 THEN "M2" ELSE "M1"]
    /\ monActive = [m \in Monitors |->
                      IF m = hmon[hactive] THEN hactive
                      ELSE IF m = "M1" THEN 1
                      ELSE IF -3 \in hexists THEN -3 ELSE 0]
    /\ pending = << >>
    /\ nevents = 0
    /\ listener = "starting"
    /\ active = None
    /\ seeded = None
    /\ guard = 0
    /\ h = [c \in 1..NCtx |-> Idle]
    /\ log = << >>
    /\ src = << >>
    /\ sub = [s \in 1..MaxSubs |-> NoSub]
    /\ ui = NewUi(DefaultConfig)
    /\ fed = NothingFed
    /\ once = "done"
    /\ made = OneOfEach
    /\ caller = [p \in 1..NCallers |-> Holding]
    /\ ctl = ControllerStarted
    /\ requests = << >>

\* ------------------------------------------------------ the compositor
\* The compositor changes its state and emits the native event of the active
\* adapter's protocol; an event emitted before the listener is connected is
\* not observed.
Emit(kindA, changeB, w, current) ==
    /\ nevents' = nevents + 1
    /\ pending' =
         IF listener = "running"
         THEN Append(pending,
                     [kind |-> IF adapter = "A" THEN kindA ELSE changeB,
                      name |-> IF adapter = "A" THEN HName(w) ELSE "",
                      seq |-> nevents + 1,
                      current |-> IF adapter = "B" THEN current ELSE None])
         ELSE pending
    /\ UNCHANGED << adapter, barside, listener, active, seeded, guard, h, log, src, sub >>

\* The user switches to another workspace of the focused monitor.
EnvSwitch(w) ==
    /\ w \in hexists /\ w # hactive /\ hmon[w] = hmon[hactive]
    /\ hactive' = w
    /\ monActive' = [monActive EXCEPT ![hmon[w]] = w]
    /\ UNCHANGED << hexists, hmon >>
    /\ Emit("workspace", "focus", w, Some(Node(w, w, hmon, monActive')))

\* The focus moves to another monitor, whose active workspace gets it.
EnvFocusMonitor(w) ==
    /\ w \in hexists /\ hmon[w] # hmon[hactive] /\ monActive[hmon[w]] = w
    /\ hactive' = w
    /\ UNCHANGED << hexists, hmon, monActive >>
    /\ Emit("activemon", "focus", w, Some(Node(w, w, hmon, monActive)))

\* A workspace is created.
EnvCreate(w) ==
    /\ w \in HWorkspaces \ hexists
    /\ hexists' = hexists \cup {w}
    /\ UNCHANGED << hactive, hmon, monActive >>
    /\ Emit("added", "init", w, Some(Node(w, hactive, hmon, monActive)))

\* An empty workspace that is shown nowhere is destroyed.
EnvDestroy(w) ==
    /\ w \in hexists /\ w # hactive
    /\ \A m \in Monitors : monActive[m] # w
    /\ hexists' = hexists \ {w}
    /\ UNCHANGED << hactive, hmon, monActive >>
    /\ Emit("destroyed", "empty", w, Some(Node(w, hactive, hmon, monActive)))

\* A workspace moves to the other monitor and becomes its active workspace;
\* the monitor it leaves shows another of its workspaces, if it has one.
EnvMove(w) ==
    /\ w \in hexists
    /\ LET from == hmon[w]
           to == CHOOSE m \in Monitors : m # from
           rest == { x \in hexists \ {w} : hmon[x] = from }
       IN /\ hmon' = [hmon EXCEPT ![w] = to]
          /\ monActive' =
               [m \in Monitors |->
                  IF m = to THEN w
                  ELSE IF monActive[m] # w THEN monActive[m]
                  ELSE IF rest = {} THEN 0
                  ELSE CHOOSE x \in rest : \A y \in rest : Rank(x) <= Rank(y)]
    /\ UNCHANGED << hexists, hactive >>
    /\ Emit("moved", "move", w, Some(Node(w, hactive, hmon', monActive')))

\* Hyprland: a window is opened, closed or moved.
EnvWindow(kind) ==
    /\ adapter = "A"
    /\ UNCHANGED compositor
    /\ Emit(kind, "", hactive, None)

\* Sway: a workspace becomes urgent (the event carries it), or the
\* configuration is reloaded (the event carries no workspace).
EnvSwayOther(change, w) ==
    /\ adapter = "B"
    /\ w \in hexists
    /\ UNCHANGED compositor
    /\ Emit("", change, w,
            IF change = "reload" THEN None
            ELSE Some(Node(w, hactive, hmon, monActive)))

WindowKinds == {"windowopen", "windowclose", "windowmoved"}

Env ==
    /\ nevents < MaxEvents
    /\ \/ \E w \in HWorkspaces : EnvSwitch(w)
       \/ \E w \in HWorkspaces : EnvFocusMonitor(w)
       \/ \E w \in HWorkspaces : EnvCreate(w)
       \/ \E w \in HWorkspaces : EnvDestroy(w)
       \/ \E w \in HWorkspaces : EnvMove(w)
       \/ \E k \in WindowKinds : EnvWindow(k)
       \/ \E w \in HWorkspaces : EnvSwayOther("urgent", w)
       \/ EnvSwayOther("reload", hactive)

\* ------------------------------------------------ Adapter A: the listener

\* listen_workspace_events(): the spawned task seeds the cache with the
\* active workspace and starts the listener.
ListenerStartA ==
    /\ adapter = "A" /\ listener = "starting"
    /\ listener' = "running"
    /\ active' = Some(get_active_workspace)
    /\ seeded' = Some(get_active_workspace)
    /\ UNCHANGED << adapter, barside, compositor, pending, nevents, guard, h, log, src, sub >>

\* The callbacks whose first statement is `let _lock = lock!(lock)`.
GuardedKinds == {"added", "workspace", "activemon", "moved", "destroyed"}

\* The callbacks that hold the cache's mutex, lock!(active), until they return.
CacheKinds == {"added", "workspace", "activemon", "moved"}

TakesGuard(kind) == kind \in GuardedKinds

\* The workspace queries a callback makes before its first send:
\* get_workspace() runs Workspaces::get() and create_is_visible() runs
\* Monitors::get(); the batch callbacks run Workspaces::get(); the destroy
\* callback runs none.
Queries(kind) ==
    IF kind \in CacheKinds THEN << "Workspaces::get", "Monitors::get" >>
    ELSE IF kind = "destroyed" THEN << >>
    ELSE << "Workspaces::get" >>

InCallback(c) == h[c].pc # "idle"

\* The cache's mutex is held by a callback other than c.
CacheLocked(c) ==
    \E d \in 1..NCtx :
        d # c /\ InCallback(d) /\ Unwrap(h[d].ev).kind \in CacheKinds

is_focused(w) == w.visibility = Focused

\* Mutant of EntryPc: the active-monitor callback does not look at whether
\* the workspace is already focused.
EntryPc_ignores_focused(kind, ws) ==
    CASE kind = "added" -> IF IsSome(ws) THEN "add" ELSE "done"
      [] kind = "workspace" -> IF IsSome(ws) THEN "update" ELSE "done"
      [] kind = "activemon" -> IF IsSome(ws) THEN "focus" ELSE "done"
      [] kind = "moved" -> IF IsSome(ws) THEN "move" ELSE "done"
      [] kind = "destroyed" -> "destroy"
      [] OTHER -> IF hexists = {} THEN "done" ELSE "batch"

\* The position a callback starts at, once it has resolved the workspace
\* its event names (the closures' statements up to the first send).
EntryPc(kind, ws) ==
    CASE kind = "added" -> IF IsSome(ws) THEN "add" ELSE "done"
      [] kind = "workspace" -> IF IsSome(ws) THEN "update" ELSE "done"
      [] kind = "activemon" ->
            IF IsSome(ws) /\ ~is_focused(Unwrap(ws)) THEN "focus" ELSE "done"
      [] kind = "moved" -> IF IsSome(ws) THEN "move" ELSE "done"
      [] kind = "destroyed" -> "destroy"
      [] OTHER -> IF hexists = {} THEN "done" ELSE "batch"

\* The listener enters the callback of the next observed event in context c.
Begin(c) ==
    /\ adapter = "A" /\ listener = "running"
    /\ pending # << >>
    /\ ~InCallback(c)
    /\ \A d \in 1..(c - 1) : InCallback(d)
    /\ LET ev == Head(pending)
           ws == IF ev.kind \in CacheKinds
                 THEN get_workspace(get_workspace_id(ev.name), active)
                 ELSE None
       IN /\ TakesGuard(ev.kind) => guard = 0
          /\ ev.kind \in CacheKinds => ~CacheLocked(c)
          /\ guard' = IF TakesGuard(ev.kind) THEN c ELSE guard
          /\ h' = [h EXCEPT ![c] =
                     [pc |-> EntryPc(ev.kind, ws), ev |-> Some(ev), ws |-> ws,
                      todo |-> IF ev.kind \in WindowKinds THEN WorkspacesGet
                               ELSE << >>,
                      entry |-> active, out |-> << >>,
                      queried |-> Queries(ev.kind),
                      list |-> IF ev.kind \in WindowKinds THEN WorkspacesGet
                               ELSE << >>]]
    /\ pending' = Tail(pending)
    /\ UNCHANGED << adapter, barside, compositor, nevents, listener, active, seeded,
                    log, src, sub >>

\* A callback sends `msgs` and moves to `pc`; a send that fails panics in
\* the callback, which ends the listener.
Emits(c, msgs, pc) ==
    IF SendOk \/ msgs = << >>
    THEN /\ Send(msgs, Unwrap(h[c].ev).seq)
         /\ h' = [h EXCEPT ![c].pc = pc, ![c].out = @ \o msgs]
         /\ listener' = listener
    ELSE /\ listener' = "panicked"
         /\ UNCHANGED << log, src, h >>

\* Mutant of AddedSend: the added workspace is stored in the cache.
AddedSend_replaces_cache(c) ==
    /\ h[c].pc = "add"
    /\ Emits(c, << Add(Unwrap(h[c].ws)) >>, "done")
    /\ active' = h[c].ws
    /\ UNCHANGED << adapter, barside, compositor, pending, nevents,
                    seeded, guard, sub >>

\* add_workspace_added_handler: send!(tx, WorkspaceUpdate::Add(workspace))
AddedSend(c) ==
    /\ h[c].pc = "add"
    /\ Emits(c, << Add(Unwrap(h[c].ws)) >>, "done")
    /\ UNCHANGED << adapter, barside, compositor, pending, nevents, active,
                    seeded, guard, sub >>

\* Mutant of ChangeSend: the focus change is not sent after the Update.
ChangeSend_skips_focus(c) ==
    /\ h[c].pc = "update"
    /\ Emits(c, << Update(Unwrap(h[c].ws)) >>, "done")
    /\ UNCHANGED << adapter, barside, compositor, pending, nevents, active,
                    seeded, guard, sub >>

\* add_workspace_change_handler: the Update, sent whatever the focus
ChangeSend(c) ==
    /\ h[c].pc = "update"
    /\ Emits(c, << Update(Unwrap(h[c].ws)) >>,
             IF is_focused(Unwrap(h[c].ws)) THEN "done" ELSE "focus")
    /\ UNCHANGED << adapter, barside, compositor, pending, nevents, active,
                    seeded, guard, sub >>

\* Mutant of MovedSend: the focus change a move can carry is not sent.
MovedSend_move_only(c) ==
    /\ h[c].pc = "move"
    /\ Emits(c, << Move(Unwrap(h[c].ws)) >>, "done")
    /\ UNCHANGED << adapter, barside, compositor, pending, nevents, active,
                    seeded, guard, sub >>

\* add_workspace_moved_handler: the Move
MovedSend(c) ==
    /\ h[c].pc = "move"
    /\ Emits(c, << Move(Unwrap(h[c].ws)) >>,
             IF is_focused(Unwrap(h[c].ws)) THEN "done" ELSE "focus")
    /\ UNCHANGED << adapter, barside, compositor, pending, nevents, active,
                    seeded, guard, sub >>

\* Mutant of send_focus_change: the cache is not replaced.
send_focus_change_keeps_cache(c) ==
    /\ h[c].pc = "focus"
    /\ Emits(c, IF IsSome(active)
                THEN << Focus(active, Unwrap(h[c].ws)) >> ELSE << >>, "done")
    /\ UNCHANGED << adapter, barside, compositor, pending, nevents, active,
                    seeded, guard, sub >>

\* Mutant of send_focus_change: the cache is left as take() left it.
send_focus_change_leaves_none(c) ==
    /\ h[c].pc = "focus"
    /\ Emits(c, IF IsSome(active)
                THEN << Focus(active, Unwrap(h[c].ws)) >> ELSE << >>, "done")
    /\ active' = None
    /\ UNCHANGED << adapter, barside, compositor, pending, nevents, seeded,
                    guard, sub >>

\* send_focus_change(prev_workspace, workspace, tx)
send_focus_change(c) ==
    /\ h[c].pc = "focus"
    /\ Emits(c, IF IsSome(active)
                THEN << Focus(active, Unwrap(h[c].ws)) >> ELSE << >>, "done")
    /\ active' = IF SendOk \/ ~IsSome(active) THEN Some(Unwrap(h[c].ws))
                 ELSE None
    /\ UNCHANGED << adapter, barside, compositor, pending, nevents, seeded,
                    guard, sub >>

\* Mutant of DestroySend: the callback returns without sending.
DestroySend_silent(c) ==
    /\ h[c].pc = "destroy"
    /\ Emits(c, << >>, "done")
    /\ UNCHANGED << adapter, barside, compositor, pending, nevents, active,
                    seeded, guard, sub >>

\* add_workspace_destroy_handler: send!(tx, WorkspaceUpdate::Remove { name })
DestroySend(c) ==
    /\ h[c].pc = "destroy"
    /\ Emits(c, << Remove(get_workspace_id(Unwrap(h[c].ev).name)) >>, "done")
    /\ UNCHANGED << adapter, barside, compositor, pending, nevents, active,
                    seeded, guard, sub >>

\* workspace_batch_event!: the visibility of one queried workspace
BatchVisibility(hw) ==
    IF IsSome(active)
    THEN Visible(Unwrap(active).id = IdToString(hw.id))
    ELSE Visible(FALSE)

\* Mutant of BatchSend: the callback returns after the first workspace.
BatchSend_stops_after_first(c) ==
    /\ h[c].pc = "batch"
    /\ ~CacheLocked(c)
    /\ LET hw == Head(h[c].todo)
       IN /\ Send(<< Update(WorkspaceFrom(BatchVisibility(hw), hw)) >>,
                  Unwrap(h[c].ev).seq)
          /\ h' = [h EXCEPT
                     ![c].todo = Tail(@),
                     ![c].out = Append(@, Update(WorkspaceFrom(BatchVisibility(hw), hw))),
                     ![c].pc = "done"]
          /\ listener' = listener
    /\ UNCHANGED << adapter, barside, compositor, pending, nevents, active,
                    seeded, guard, sub >>

\* workspace_batch_event!: one iteration of the for_each, under lock!(active)
BatchSend(c) ==
    /\ h[c].pc = "batch"
    /\ ~CacheLocked(c)
    /\ LET hw == Head(h[c].todo)
       IN IF SendOk
          THEN /\ Send(<< Update(WorkspaceFrom(BatchVisibility(hw), hw)) >>,
                       Unwrap(h[c].ev).seq)
               /\ h' = [h EXCEPT
                          ![c].todo = Tail(@),
                          ![c].out = Append(@, Update(WorkspaceFrom(BatchVisibility(hw), hw))),
                          ![c].pc = IF Len(h[c].todo) = 1 THEN "done" ELSE "batch"]
               /\ listener' = listener
          ELSE /\ listener' = "panicked"
               /\ UNCHANGED << log, src, h >>
    /\ UNCHANGED << adapter, barside, compositor, pending, nevents, active,
                    seeded, guard, sub >>

\* Mutant of Return: the callbacks' mutex stays locked.
Return_keeps_guard(c) ==
    /\ h[c].pc = "done"
    /\ h' = [h EXCEPT ![c] = Idle]
    /\ UNCHANGED << adapter, barside, compositor, pending, nevents, listener, active,
                    seeded, guard, log, src, sub >>

\* The callback returns: its mutex guards are dropped.
Return(c) ==
    /\ h[c].pc = "done"
    /\ h' = [h EXCEPT ![c] = Idle]
    /\ guard' = IF guard = c THEN 0 ELSE guard
    /\ UNCHANGED << adapter, barside, compositor, pending, nevents, listener, active,
                    seeded, log, src, sub >>

Callback(c) ==
    \/ Begin(c)
    \/ AddedSend(c)
    \/ ChangeSend(c)
    \/ MovedSend(c)
    \/ send_focus_change(c)
    \/ DestroySend(c)
    \/ BatchSend(c)
    \/ Return(c)

\* ------------------------------------------------ Adapter B: the listener

\* SwayEventClient::new(): the spawned task connects and subscribes.
ListenerStartB ==
    /\ adapter = "B" /\ listener = "starting"
    /\ listener' = "running"
    /\ UNCHANGED << adapter, barside, compositor, pending, nevents, active, seeded,
                    guard, h, log, src, sub >>

\* One turn of `while let Some(event) = events.next().await`: the event is
\* translated and sent; a panic of the translation ends the task, and so
\* does the `?` on a send that fails.
SwayHandle ==
    /\ adapter = "B" /\ listener = "running"
    /\ pending # << >>
    /\ LET ev == Head(pending)
           update == WorkspaceUpdateFrom([change |-> ev.kind, current |-> ev.current])
       IN IF update = Panic
          THEN /\ listener' = "panicked"
               /\ UNCHANGED << log, src >>
          ELSE IF SendOk
          THEN /\ Send(<< update >>, ev.seq)
               /\ UNCHANGED listener
          ELSE /\ listener' = "ended"
               /\ UNCHANGED << log, src >>
    /\ pending' = Tail(pending)
    /\ UNCHANGED << adapter, barside, compositor, nevents, active, seeded, guard, h, sub >>

\* ---------------------------------------------------------- subscribing

\* Mutant of InitListA: the active name is taken from the listener's cache.
InitListA_from_cache ==
    LET list == WorkspacesGet
    IN [i \in 1..Len(list) |->
          WorkspaceFrom(
              VisibilityFrom(list[i], NameOf(active), create_is_visible(list[i])),
              list[i])]

\* Adapter A, subscribe_workspace_change(): the snapshot built from
\* HWorkspace::get_active(), create_is_visible() and Workspaces::get()
InitListA ==
    LET active_id == Some(HName(hactive))
        list == WorkspacesGet
    IN [i \in 1..Len(list) |->
          WorkspaceFrom(
              VisibilityFrom(list[i], active_id, create_is_visible(list[i])),
              list[i])]

\* Adapter B, subscribe_workspace_change(): the snapshot built from
\* get_workspaces()
InitListB ==
    LET list == WorkspacesGet
    IN [i \in 1..Len(list) |-> WorkspaceFromSway(SwayWorkspace(list[i].id))]

\* Mutant of Subscribe: the new receiver starts at the oldest value sent.
Subscribe_from_oldest(s) ==
    /\ sub[s].pc = "none"
    /\ \A r \in 1..(s - 1) : sub[r].pc = "live"
    /\ sub' = [sub EXCEPT ![s].pc = "subscribed", ![s].start = 1, ![s].pos = 1]
    /\ UNCHANGED << adapter, barside, compositor, pending, nevents, listener, active,
                    seeded, guard, h, log, src >>

\* let rx = self.workspace_tx.subscribe(): the receiver sees every value
\* sent from now on.  Calls of subscribe_workspace_change() follow one
\* another: a call starts when the call before it has returned.
Subscribe(s) ==
    /\ sub[s].pc = "none"
    /\ \A r \in 1..(s - 1) : sub[r].pc = "live"
    /\ sub' = [sub EXCEPT ![s].pc = "subscribed",
                          ![s].start = Len(log) + 1,
                          ![s].pos = Len(log) + 1]
    /\ UNCHANGED << adapter, barside, compositor, pending, nevents, listener, active,
                    seeded, guard, h, log, src >>

\* subscribe_workspace_change() called when the receivers handed out before
\* have all been dropped.
SubscribeAfterDrop(s) ==
    /\ sub[s].pc = "none"
    /\ \A r \in 1..(s - 1) : sub[r].pc = "dropped"
    /\ sub' = [sub EXCEPT ![s].pc = "subscribed",
                          ![s].start = Len(log) + 1,
                          ![s].pos = Len(log) + 1]
    /\ UNCHANGED << adapter, barside, compositor, pending, nevents, listener, active,
                    seeded, guard, h, log, src >>

\* The snapshot is queried and sent, send!(tx, WorkspaceUpdate::Init(..)),
\* and the receiver is returned.
SubscribeSend(s) ==
    /\ sub[s].pc = "subscribed"
    /\ Send(<< Init_(IF adapter = "A" THEN InitListA ELSE InitListB) >>, 0)
    /\ sub' = [sub EXCEPT ![s].pc = "live"]
    /\ UNCHANGED << adapter, barside, compositor, pending, nevents, listener, active,
                    seeded, guard, h >>

\* The values of log a receiver at `pos` has not read yet.
Unread(pos) == Len(log) - pos + 1

\* Mutant of Recv: a lagging receiver loses every unread value.
Recv_drops_all_unread(s) ==
    /\ sub[s].pc = "live"
    /\ Unread(sub[s].pos) > 0
    /\ sub' = IF Unread(sub[s].pos) > Capacity
              THEN [sub EXCEPT
                      ![s].pos = Len(log) + 1,
                      ![s].skipped = @ \cup (sub[s].pos .. Len(log))]
              ELSE [sub EXCEPT ![s].pos = @ + 1,
                               ![s].got = Append(@, log[sub[s].pos])]
    /\ UNCHANGED << adapter, barside, compositor, pending, nevents, listener, active,
                    seeded, guard, h, log, src >>

\* Receiver::recv(): the next value; or, when more than Capacity values are
\* unread, Err(Lagged) and the receiver moves to the oldest value the
\* channel still holds.
Recv(s) ==
    /\ sub[s].pc = "live"
    /\ Unread(sub[s].pos) > 0
    /\ sub' = IF Unread(sub[s].pos) > Capacity
              THEN [sub EXCEPT
                      ![s].pos = Len(log) - Capacity + 1,
                      ![s].skipped = @ \cup (sub[s].pos .. (Len(log) - Capacity))]
              ELSE [sub EXCEPT ![s].pos = @ + 1,
                               ![s].got = Append(@, log[sub[s].pos])]
    /\ UNCHANGED << adapter, barside, compositor, pending, nevents, listener, active,
                    seeded, guard, h, log, src >>

\* The values of log from index i to index `to`, in order, without those
\* whose index is in `skip`.
RECURSIVE Pick(_, _, _)
Pick(i, to, skip) ==
    IF i > to THEN << >>
    ELSE (IF i \in skip THEN << >> ELSE << log[i] >>) \o Pick(i + 1, to, skip)

\* The values the channel holds or held for receiver s since it was created:
\* those recv() has yielded and those it yields next, in this order.
Inbox(s) ==
    IF sub[s].pc = "none" THEN << >>
    ELSE IF sub[s].pc = "dropped"
    THEN Pick(sub[s].start, sub[s].pos - 1, sub[s].skipped)
    ELSE Pick(sub[s].start, Len(log), sub[s].skipped)

\* The forwarding task ends and its receiver is dropped.
Drop(s) ==
    /\ sub[s].pc = "live"
    /\ sub' = [sub EXCEPT ![s].pc = "dropped", ![s].end = Len(log)]
    /\ UNCHANGED << adapter, barside, compositor, pending, nevents, listener, active,
                    seeded, guard, h, log, src >>

\* ------------------------------------------------------ specification
Next ==
    \/ Env
    \/ ListenerStartA
    \/ ListenerStartB
    \/ \E c \in 1..NCtx : Callback(c)
    \/ SwayHandle
    \/ \E s \in 1..MaxSubs : Subscribe(s)
    \/ \E s \in 1..MaxSubs : SubscribeSend(s)

Spec == Init /\ [][Next]_vars

\* ------------------------------------------ the channel under a burst
\* A second specification for the channel's bound: two receivers have
\* subscribed, the listener runs, and the compositor emits one event after
\* another (a window event under Adapter A, an urgent workspace under
\* Adapter B), each once the one before it has been handled, while the
\* receivers read at their own pace.
MaxLog == 19        \* values sent on the channel in one run of SpecChan

InitChan ==
    /\ adapter \in {"A", "B"}
    /\ hexists = {1, 2, -3}
    /\ hactive = 1
    /\ hmon = [w \in HWorkspaces |-> IF w = -3 THEN "M2" ELSE "M1"]
    /\ monActive = [m \in Monitors |-> IF m = "M1" THEN 1 ELSE -3]
    /\ pending = << >>
    /\ nevents = 0
    /\ listener = "running"
    /\ active = IF adapter = "A" THEN Some(get_active_workspace) ELSE None
    /\ seeded = active
    /\ guard = 0
    /\ h = [c \in 1..NCtx |-> Idle]
    /\ LET init == Init_(IF adapter = "A" THEN InitListA ELSE InitListB)
       IN /\ log = << init, init >>
          /\ src = << 0, 0 >>
    /\ sub = [s \in 1..MaxSubs |->
                IF s <= 2
                THEN [NoSub EXCEPT !.pc = "live", !.start = s, !.pos = s]
                ELSE NoSub]
    /\ ui = NewUi(DefaultConfig)
    /\ fed = NothingFed
    /\ once = "done"
    /\ made = OneOfEach
    /\ caller = [p \in 1..NCallers |-> Holding]
    /\ ctl = ControllerStarted
    /\ requests = << >>

EnvBurst ==
    /\ Len(log) < MaxLog
    /\ pending = << >>
    /\ \A c \in 1..NCtx : ~InCallback(c)
    /\ \/ EnvWindow("windowopen")
       \/ EnvSwayOther("urgent", hactive)

NextChan ==
    \/ EnvBurst
    \/ \E c \in 1..NCtx : Begin(c)
    \/ \E c \in 1..NCtx : BatchSend(c)
    \/ \E c \in 1..NCtx : Return(c)
    \/ SwayHandle
    \/ \E s \in 1..MaxSubs : Recv(s)

SpecChan == InitChan /\ [][NextChan]_vars

\* ------------------------------------------- the widget under updates
\* A third specification for the widget's handler alone: a module of any
\* configuration is given updates drawn from a sample of the values the
\* adapters send.
MaxFed == 3         \* updates given to the widget in one run of SpecWidget

Configs ==
    [output_name : Monitors, all_monitors : BOOLEAN, hidden : {{}, {"2"}},
     sort : {"added", "alphanumeric"}]

\* A Workspace value of workspace w on monitor m.
SampleWorkspace(w, m, visibility) ==
    [id |-> IdToString(w), name |-> HName(w), monitor |-> m,
     visibility |-> visibility]

SampleUpdates ==
    LET w1f == SampleWorkspace(1, "M1", Focused)
        w1h == SampleWorkspace(1, "M1", Hidden)
        w2h == SampleWorkspace(2, "M1", Hidden)
        w2m == SampleWorkspace(2, "M2", Visible(TRUE))
        w3v == SampleWorkspace(-3, "M2", Visible(TRUE))
    IN { Init_(<< w1f, w2h, w3v >>), Init_(<< w1f, w2h >>),
         Add(w2h), Add(w3v),
         Update(w1f), Update(w2h), Update(w2m), Update(w3v),
         Move(w2m), Move(w2h),
         Focus(Some(w1f), w2h), Focus(None, w3v), Focus(Some(w2h), w1h),
         Remove("2"), Remove("web"), Remove("-3") }

InitWidget ==
    /\ adapter = "A"
    /\ hexists = {1, 2, -3}
    /\ hactive = 1
    /\ hmon = [w \in HWorkspaces |-> IF w = -3 THEN "M2" ELSE "M1"]
    /\ monActive = [m \in Monitors |-> IF m = "M1" THEN 1 ELSE -3]
    /\ pending = << >>
    /\ nevents = 0
    /\ listener = "starting"
    /\ active = None
    /\ seeded = None
    /\ guard = 0
    /\ h = [c \in 1..NCtx |-> Idle]
    /\ log = << >>
    /\ src = << >>
    /\ sub = [s \in 1..MaxSubs |-> NoSub]
    /\ \E cfg \in Configs :
          /\ ui = NewUi(cfg)
          /\ fed = [prev |-> NewUi(cfg), last |-> << >>]
    /\ once = "done"
    /\ made = OneOfEach
    /\ caller = [p \in 1..NCallers |-> Holding]
    /\ ctl = ControllerStarted
    /\ requests = << >>

\* The main loop hands the next update to the closure attached to widget_rx.
Feed(event) ==
    /\ Len(fed.last) < MaxFed
    /\ ui' = widget_rx_handler(ui, event)
    /\ fed' = [prev |-> ui, last |-> Append(fed.last, event)]
    /\ UNCHANGED << adapter, compositor, pending, nevents, listener, active,
                    seeded, guard, h, log, src, sub, once, made, caller, ctl,
                    requests >>

NextWidget == \E event \in SampleUpdates : Feed(event)

SpecWidget == InitWidget /\ [][NextWidget]_vars

\* ------------------------------------------- the adapter's construction
\* A fourth specification for the lazy static: the process starts with the
\* adapter not constructed; tasks call get_client() / get_sub_client(), the
\* first of them runs the initializer, and the listener task it spawns
\* connects or fails to.

InitClient ==
    /\ adapter \in {"A", "B"}
    /\ hexists = {1, 2, -3}
    /\ hactive = 1
    /\ hmon = [w \in HWorkspaces |-> IF w = -3 THEN "M2" ELSE "M1"]
    /\ monActive = [m \in Monitors |-> IF m = "M1" THEN 1 ELSE -3]
    /\ pending = << >>
    /\ nevents = 0
    /\ listener = "none"
    /\ active = None
    /\ seeded = None
    /\ guard = 0
    /\ h = [c \in 1..NCtx |-> Idle]
    /\ log = << >>
    /\ src = << >>
    /\ sub = [s \in 1..MaxSubs |-> NoSub]
    /\ ui = NewUi(DefaultConfig)
    /\ fed = NothingFed
    /\ once = "new"
    /\ made = NoneYet
    /\ caller = [p \in 1..NCallers |-> NotCalling]
    /\ ctl = ControllerStarted
    /\ requests = << >>

ClientFrame ==
    UNCHANGED << adapter, compositor, pending, nevents, active, seeded, guard,
                 h, log, src, sub, ui, fed, ctl, requests >>

\* Mutant of GetClient: the static is initialized without synchronisation,
\* by every caller that finds it not yet published.
GetClient_unsynchronised(p) ==
    /\ caller[p].pc = "idle"
    /\ made.calls < MaxCalls
    /\ made' = [made EXCEPT !.calls = @ + 1]
    /\ IF once = "done"
       THEN caller' = [caller EXCEPT ![p] = [pc |-> "has", ref |-> made.clients]]
       ELSE caller' = [caller EXCEPT ![p].pc = "initializing"]
    /\ once' = IF once = "new" THEN "running" ELSE once
    /\ UNCHANGED listener
    /\ ClientFrame

\* get_client() / get_sub_client(): the dereference of the lazy static.  The
\* first caller runs the initializer; a caller that arrives while it runs
\* waits; afterwards every caller is given the reference.
GetClient(p) ==
    /\ caller[p].pc = "idle"
    /\ made.calls < MaxCalls
    /\ made' = [made EXCEPT !.calls = @ + 1]
    /\ CASE once = "new" ->
              /\ once' = "running"
              /\ caller' = [caller EXCEPT ![p].pc = "initializing"]
         [] once = "running" ->
              /\ once' = once
              /\ caller' = [caller EXCEPT ![p].pc = "waiting"]
         [] once = "done" ->
              /\ once' = once
              /\ caller' = [caller EXCEPT ![p] = [pc |-> "has", ref |-> made.clients]]
    /\ UNCHANGED listener
    /\ ClientFrame

\* The initializer: EventClient::new() / SwayEventClient::new() creates the
\* channel and the adapter.
ClientNew(p) ==
    /\ caller[p].pc = "initializing"
    /\ made' = [made EXCEPT !.clients = @ + 1, !.channels = @ + 1]
    /\ caller' = [caller EXCEPT ![p] = [pc |-> "spawning", ref |-> made.clients + 1]]
    /\ UNCHANGED << once, listener >>
    /\ ClientFrame

\* The initializer: the listener task is spawned (spawn_blocking in
\* listen_workspace_events, spawn in SwayEventClient::new) and the adapter
\* is stored in the static, whatever becomes of the task.
ClientSpawn(p) ==
    /\ caller[p].pc = "spawning"
    /\ made' = [made EXCEPT !.tasks = @ + 1]
    /\ listener' = IF listener = "none" THEN "starting" ELSE listener
    /\ once' = "done"
    /\ caller' = [caller EXCEPT ![p].pc = "has"]
    /\ ClientFrame

\* A caller that waited for the initializer is given the reference.
ClientWake(p) ==
    /\ caller[p].pc = "waiting"
    /\ once = "done"
    /\ caller' = [caller EXCEPT ![p] = [pc |-> "has", ref |-> made.clients]]
    /\ UNCHANGED << once, made, listener >>
    /\ ClientFrame

\* The caller is done with the reference; it may call again.
ClientRelease(p) ==
    /\ caller[p].pc = "has"
    /\ caller' = [caller EXCEPT ![p] = NotCalling]
    /\ UNCHANGED << once, made, listener >>
    /\ ClientFrame

\* The listener task cannot open the native socket, or (Adapter A) its
\* initial active-workspace query fails: under Adapter A the expect()
\* panics inside the spawned task, under Adapter B the `?` ends the task.
ListenerFail ==
    /\ listener = "starting"
    /\ listener' = "failed"
    /\ UNCHANGED << once, made, caller >>
    /\ ClientFrame

NextClient ==
    \/ \E p \in 1..NCallers : GetClient(p)
    \/ \E p \in 1..NCallers : ClientNew(p)
    \/ \E p \in 1..NCallers : ClientSpawn(p)
    \/ \E p \in 1..NCallers : ClientWake(p)
    \/ \E p \in 1..NCallers : ClientRelease(p)
    \/ ListenerStartA
    \/ ListenerStartB
    \/ ListenerFail

SpecClient == InitClient /\ [][NextClient]_vars

\* ------------------------------------------ the channel without subscribers
\* A fifth specification for receivers that go away: the listener runs and
\* one module has subscribed; the compositor emits events while the module's
\* receiver is dropped and another module subscribes.
InitDrop ==
    /\ adapter \in {"A", "B"}
    /\ hexists = {1, 2, -3}
    /\ hactive = 1
    /\ hmon = [w \in HWorkspaces |-> IF w = -3 THEN "M2" ELSE "M1"]
    /\ monActive = [m \in Monitors |-> IF m = "M1" THEN 1 ELSE -3]
    /\ pending = << >>
    /\ nevents = 0
    /\ listener = "running"
    /\ active = IF adapter = "A" THEN Some(get_active_workspace) ELSE None
    /\ seeded = active
    /\ guard = 0
    /\ h = [c \in 1..NCtx |-> Idle]
    /\ log = << Init_(IF adapter = "A" THEN InitListA ELSE InitListB) >>
    /\ src = << 0 >>
    /\ sub = [s \in 1..MaxSubs |->
                IF s = 1
                THEN [NoSub EXCEPT !.pc = "live", !.start = 1, !.pos = 1]
                ELSE NoSub]
    /\ ui = NewUi(DefaultConfig)
    /\ fed = NothingFed
    /\ once = "done"
    /\ made = OneOfEach
    /\ caller = [p \in 1..NCallers |-> Holding]
    /\ ctl = ControllerStarted
    /\ requests = << >>

\* The second module subscribes once the first one's receiver is gone.
NextDrop ==
    \/ Env
    \/ \E c \in 1..NCtx : Callback(c)
    \/ SwayHandle
    \/ \E s \in 1..MaxSubs : Drop(s)
    \/ \E s \in 2..MaxSubs : SubscribeAfterDrop(s)
    \/ \E s \in 1..MaxSubs : SubscribeSend(s)

SpecDrop == InitDrop /\ [][NextDrop]_vars

\* ------------------------------------------------- the focus requests
\* A sixth specification for the controller's second task: buttons are
\* clicked, the task receives their names and calls focus(), and the
\* compositor applies the command or rejects it.
MaxClicks == 3      \* buttons clicked in one run of SpecFocus

\* The names on the buttons.
ButtonNames == { HName(w) : w \in HWorkspaces }

\* id.parse::<i32>()
ParseI32(id) ==
    CASE id = "1" -> Some(1)
      [] id = "2" -> Some(2)
      [] id = "-3" -> Some(-3)
      [] OTHER -> None

\* The workspaces the command of focus(id) names.  Adapter A:
\* WorkspaceIdentifierWithSpecial::Id(inum) when the id parses as a number,
\* Name(&id) otherwise.  Adapter B: "workspace {id}", a name.
FocusTargets(id) ==
    IF adapter = "A" /\ IsSome(ParseI32(id))
    THEN { w \in hexists : w = Unwrap(ParseI32(id)) }
    ELSE { w \in hexists : HName(w) = id }

InitFocus ==
    /\ adapter \in {"A", "B"}
    /\ hexists = {1, 2, -3}
    /\ hactive = 1
    /\ hmon = [w \in HWorkspaces |-> IF w = -3 THEN "M2" ELSE "M1"]
    /\ monActive = [m \in Monitors |-> IF m = "M1" THEN 1 ELSE -3]
    /\ pending = << >>
    /\ nevents = 0
    /\ listener = "starting"
    /\ active = None
    /\ seeded = None
    /\ guard = 0
    /\ h = [c \in 1..NCtx |-> Idle]
    /\ log = << >>
    /\ src = << >>
    /\ sub = [s \in 1..MaxSubs |-> NoSub]
    /\ ui = NewUi(DefaultConfig)
    /\ fed = NothingFed
    /\ once = "done"
    /\ made = OneOfEach
    /\ caller = [p \in 1..NCallers |-> Holding]
    /\ ctl = ControllerStarted
    /\ requests = << >>

FocusFrame ==
    UNCHANGED << adapter, hexists, hmon, pending, nevents, listener, active,
                 seeded, guard, h, log, src, sub, ui, fed, once, made, caller >>

\* button.connect_clicked: try_send!(tx, name).  Once the controller's task
\* has ended, its receiver is gone and the name reaches nobody.
Click(name) ==
    /\ ctl.served + ctl.errors + ctl.lost + Len(requests) < MaxClicks
    /\ IF ctl.pc = "running"
       THEN /\ requests' = Append(requests, name)
            /\ ctl' = ctl
       ELSE /\ requests' = requests
            /\ ctl' = [ctl EXCEPT !.lost = @ + 1]
    /\ UNCHANGED << hactive, monActive >>
    /\ FocusFrame

\* One turn of `while let Some(name) = rx.recv().await`, the command being
\* applied: client.focus(name) returns Ok(()).
FocusApplied ==
    /\ ctl.pc = "running"
    /\ requests # << >>
    /\ requests' = Tail(requests)
    /\ ctl' = [ctl EXCEPT !.served = @ + 1]
    /\ \E w \in FocusTargets(Head(requests)) :
          /\ hactive' = w
          /\ monActive' = [monActive EXCEPT ![hmon[w]] = w]
    /\ FocusFrame

\* One turn of the loop, the command being rejected: client.focus(name)
\* returns an error and the `?` returns it from the task.
FocusRejected ==
    /\ ctl.pc = "running"
    /\ requests # << >>
    /\ requests' = Tail(requests)
    /\ ctl' = [ctl EXCEPT !.pc = "ended", !.errors = @ + 1]
    /\ UNCHANGED << hactive, monActive >>
    /\ FocusFrame

NextFocus ==
    \/ \E name \in ButtonNames : Click(name)
    \/ FocusApplied
    \/ FocusRejected

SpecFocus == InitFocus /\ [][NextFocus]_vars

\* --------------------------------------------- the cache under all calls
\* A seventh specification for Adapter A's cache: the listener is started
\* and seeds the cache, the compositor emits events, modules subscribe, and
\* the controller calls focus(), which makes the compositor switch and emit
\* the events of the switch.
InitCache ==
    /\ Init
    /\ adapter = "A"

\* EventClient::focus(id): Dispatch::call(DispatchType::Workspace(identifier))
\* is applied: the compositor switches to the workspace and emits 'workspace
\* changed', followed by 'active monitor changed' when the workspace is on
\* another monitor than the one that had the focus.  (A call that names the
\* active workspace changes nothing.)
FocusDispatch(name) ==
    /\ adapter = "A"
    /\ ctl.pc = "running"
    /\ \E w \in FocusTargets(name) :
          LET crosses == hmon[w] # hmon[hactive]
              n == IF crosses THEN 2 ELSE 1
              changed == [kind |-> "workspace", name |-> HName(w),
                          seq |-> nevents + 1, current |-> None]
              activemon == [kind |-> "activemon", name |-> HName(w),
                            seq |-> nevents + 2, current |-> None]
          IN /\ w # hactive
             /\ nevents + n <= MaxEvents
             /\ hactive' = w
             /\ monActive' = [monActive EXCEPT ![hmon[w]] = w]
             /\ nevents' = nevents + n
             /\ pending' =
                  IF listener = "running"
                  THEN pending \o (IF crosses THEN << changed, activemon >>
                                   ELSE << changed >>)
                  ELSE pending
    /\ ctl' = [ctl EXCEPT !.served = @ + 1]
    /\ UNCHANGED << adapter, hexists, hmon, listener, active, seeded, guard, h,
                    log, src, sub, ui, fed, once, made, caller, requests >>

EnvA ==
    /\ nevents < MaxEvents
    /\ \/ \E w \in HWorkspaces : EnvSwitch(w)
       \/ \E w \in HWorkspaces : EnvFocusMonitor(w)
       \/ \E w \in HWorkspaces : EnvCreate(w)
       \/ \E w \in HWorkspaces : EnvDestroy(w)
       \/ \E w \in HWorkspaces : EnvMove(w)
       \/ \E k \in WindowKinds : EnvWindow(k)

NextCache ==
    \/ EnvA
    \/ ListenerStartA
    \/ \E c \in 1..NCtx : Callback(c)
    \/ \E s \in 1..MaxSubs : Subscribe(s)
    \/ \E s \in 1..MaxSubs : SubscribeSend(s)
    \/ \E name \in ButtonNames : FocusDispatch(name)

SpecCache == InitCache /\ [][NextCache]_vars

\* ------------------------------------------- the module's forwarding loop
\* An eighth specification for the controller's first task: the module has
\* subscribed, the compositor emits one event after another, the task
\* receives the updates at its own pace and sends them on to the widget,
\* whose handler takes them one by one.
InitForward == InitDrop

\* One turn of `while let Ok(payload) = srx.recv().await`: with Ok(payload)
\* the payload is sent on to the widget, send_async!(tx, Update(payload));
\* with Err(Lagged) the condition of the `while let` fails, the task ends
\* and srx is dropped.  sub[s].got holds the payloads sent on.
Forward(s) ==
    /\ sub[s].pc = "live"
    /\ Unread(sub[s].pos) > 0
    /\ sub' = IF Unread(sub[s].pos) > Capacity
              THEN [sub EXCEPT
                      ![s].pc = "dropped",
                      ![s].pos = Len(log) - Capacity + 1,
                      ![s].skipped = @ \cup (sub[s].pos .. (Len(log) - Capacity)),
                      ![s].end = Len(log)]
              ELSE [sub EXCEPT ![s].pos = @ + 1,
                               ![s].got = Append(@, log[sub[s].pos])]
    /\ UNCHANGED << adapter, barside, compositor, pending, nevents, listener, active,
                    seeded, guard, h, log, src >>

\* The main loop hands the next forwarded update to the closure attached
\* to widget_rx.
WidgetTakes ==
    /\ Len(fed.last) < Len(sub[1].got)
    /\ LET event == sub[1].got[Len(fed.last) + 1]
       IN /\ ui' = widget_rx_handler(ui, event)
          /\ fed' = [prev |-> ui, last |-> Append(fed.last, event)]
    /\ UNCHANGED << adapter, compositor, pending, nevents, listener, active,
                    seeded, guard, h, log, src, sub, once, made, caller, ctl,
                    requests >>

NextForward ==
    \/ EnvBurst
    \/ \E c \in 1..NCtx : Begin(c)
    \/ \E c \in 1..NCtx : BatchSend(c)
    \/ \E c \in 1..NCtx : Return(c)
    \/ SwayHandle
    \/ \E s \in 1..MaxSubs : Forward(s)
    \/ WidgetTakes

SpecForward == InitForward /\ [][NextForward]_vars

\* ============================================================== claims

\* The number of values of type `ty` in a sequence.
Count(seq, ty) == Cardinality({ i \in 1..Len(seq) : seq[i].type = ty })

\* C1. The first value a receiver returned by subscribe_workspace_change()
\* yields is an Init: no live update comes before it.
C1_FirstValueIsInit ==
    \A s \in 1..MaxSubs :
        (sub[s].pc = "live" /\ Inbox(s) # << >>) => Inbox(s)[1].type = "Init"

\* The consumer's reconstruction of the workspaces' visibility from the
\* updates it is given: a map from workspace id to visibility.
ApplyUpdate(m, u) ==
    CASE u.type = "Init" ->
            [id \in { u.list[i].id : i \in 1..Len(u.list) } |->
                LET i == CHOOSE j \in 1..Len(u.list) : u.list[j].id = id
                IN u.list[i].visibility]
      [] u.type \in {"Add", "Update", "Move"} ->
            [id \in DOMAIN m \cup {u.ws.id} |->
                IF id = u.ws.id THEN u.ws.visibility ELSE m[id]]
      [] u.type = "Focus" ->
            [id \in DOMAIN m \cup {u.new.id} |->
                IF id = u.new.id THEN Focused
                ELSE IF IsSome(u.old) /\ id = Unwrap(u.old).id /\ m[id] = Focused
                     THEN Visible(TRUE)
                ELSE m[id]]
      [] u.type = "Remove" ->
            [id \in DOMAIN m \ {u.name} |-> m[id]]
      [] OTHER -> m

RECURSIVE Fold(_, _)
Fold(m, seq) ==
    IF seq = << >> THEN m ELSE Fold(ApplyUpdate(m, Head(seq)), Tail(seq))

FocusedIn(m) == { id \in DOMAIN m : m[id] = Focused }

\* C2. Under Adapter A, folding the updates a subscriber is given into a
\* workspace-id -> visibility map never yields two Focused entries.
C2_AtMostOneFocused ==
    adapter = "A" =>
        \A s \in 1..MaxSubs :
            sub[s].pc = "live" =>
                Cardinality(FocusedIn(Fold(<< >>, Inbox(s)))) <= 1

\* The Focus events sent before index j.
FocusBefore(j) == { i \in 1..(j - 1) : log[i].type = "Focus" }

\* C3. Under Adapter A, the `old` of every Focus event is the `new` of the
\* Focus event sent before it, or the seeded active workspace when it is the
\* first Focus event.
C3_FocusOldIsPreviousFocus ==
    adapter = "A" =>
        \A j \in 1..Len(log) :
            log[j].type = "Focus" =>
                log[j].old =
                    IF FocusBefore(j) = {} THEN seeded
                    ELSE Some(log[CHOOSE i \in FocusBefore(j) :
                                     \A k \in FocusBefore(j) : k <= i].new)

C3_TwoFocusEvents == adapter = "A" /\ Count(log, "Focus") >= 2

\* A 'workspace changed' callback that has resolved its target and is about
\* to return.
ChangeDone(c) ==
    /\ h[c].pc = "done"
    /\ Unwrap(h[c].ev).kind = "workspace"
    /\ IsSome(h[c].ws)
    /\ IsSome(h[c].entry)

\* C4. A 'workspace changed' event whose target T resolves and is not the
\* cached workspace P emits Update(T), then Focus{old: Some(P), new: T}, and
\* nothing else, and leaves T in the cache.
C4_ChangeEmitsUpdateThenFocus ==
    \A c \in 1..NCtx :
        (ChangeDone(c) /\ Unwrap(h[c].ws).id # Unwrap(h[c].entry).id) =>
            /\ h[c].out = << Update(Unwrap(h[c].ws)),
                             Focus(h[c].entry, Unwrap(h[c].ws)) >>
            /\ active = h[c].ws

C4_ChangeToOtherDone ==
    \E c \in 1..NCtx :
        ChangeDone(c) /\ Unwrap(h[c].ws).id # Unwrap(h[c].entry).id

\* C5. A 'workspace changed' event that targets the workspace held in the
\* cache emits Update for it and nothing else, and leaves the cache as it
\* was.
C5_ChangeToCachedEmitsUpdateOnly ==
    \A c \in 1..NCtx :
        (ChangeDone(c) /\ Unwrap(h[c].ws).id = Unwrap(h[c].entry).id) =>
            /\ h[c].out = << Update(Unwrap(h[c].ws)) >>
            /\ active = h[c].entry

C5_ChangeToCachedDone ==
    \E c \in 1..NCtx :
        ChangeDone(c) /\ Unwrap(h[c].ws).id = Unwrap(h[c].entry).id

\* C6. Adapter B's listener task never panics, whatever the change kind of
\* the native event it translates.
C6_ListenerNeverPanics == adapter = "B" => listener # "panicked"

\* A callback is inside its translate-and-emit step.
InStep(c) == h[c].pc \notin {"idle", "done"}

\* C7. Under Adapter A, no two callbacks are inside their translate-and-emit
\* step at the same time.
C7_CallbacksExcludeEachOther ==
    \A c, d \in 1..NCtx : (c # d /\ InStep(c)) => ~InStep(d)

\* C8. The updates are sent in the order the listener observed the events
\* that produced them.
C8_SendsFollowObservedOrder ==
    \A i, j \in 1..Len(log) :
        (i < j /\ src[i] # 0 /\ src[j] # 0) => src[i] <= src[j]

\* C9. When a receiver has more than Capacity values unread, it loses the
\* oldest of them and only values the channel no longer held; the values it
\* is given are the others, in order; the listener goes on sending and does
\* not panic; a receiver that kept up loses nothing.
C9_LaggingReceiverLosesOldestOnly ==
    /\ listener = "running"
    /\ \A s \in 1..MaxSubs :
          sub[s].pc = "live" =>
              /\ sub[s].got = Pick(sub[s].start, sub[s].pos - 1, sub[s].skipped)
              /\ \A i \in sub[s].skipped :
                    /\ sub[s].start <= i /\ i < sub[s].pos
                    /\ i + Capacity <= Len(log)
              /\ Unread(sub[s].pos) <= Capacity =>
                    \A i \in sub[s].pos .. Len(log) : i \notin sub[s].skipped

C9_OneLaggedOneKeptUp ==
    \E s, r \in 1..MaxSubs :
        /\ sub[s].pc = "live" /\ sub[r].pc = "live"
        /\ sub[s].skipped # {}
        /\ sub[s].got # << >>
        /\ sub[r].skipped = {}
        /\ Len(sub[r].got) > Capacity

SnapshotVisibility(w) ==
    IF HName(w) = HName(hactive) THEN Focused
    ELSE IF \E m \in Monitors : monActive[m] = w THEN Visible(TRUE)
    ELSE Hidden

\* C11. The Init that Adapter A's subscribe_workspace_change() sends holds
\* exactly one Workspace for each workspace the compositor has at that
\* moment, none missing and none extra, the one named like the active
\* workspace marked Focused and every other one Visible(true) if it is some
\* monitor's active workspace and Hidden otherwise.
C11_InitHoldsTheQueriedWorkspaces ==
    [][\A s \in 1..MaxSubs :
          (adapter = "A" /\ sub[s].pc = "subscribed" /\ sub'[s].pc = "live") =>
              /\ Len(log') = Len(log) + 1
              /\ log'[Len(log')].type = "Init"
              /\ LET list == log'[Len(log')].list
                 IN /\ Len(list) = Cardinality(hexists)
                    /\ \A w \in hexists :
                          \E i \in 1..Len(list) :
                              list[i] = [id |-> IdToString(w),
                                         name |-> HName(w),
                                         monitor |-> hmon[w],
                                         visibility |-> SnapshotVisibility(w)]
      ]_vars

C11_InitWithEveryVisibility ==
    /\ adapter = "A"
    /\ \E j \in 1..Len(log) :
          /\ log[j].type = "Init"
          /\ { log[j].list[i].visibility : i \in 1..Len(log[j].list) }
                = {Focused, Visible(TRUE), Hidden}

\* What the claim calls the consumer's reconstructed state.
Reconstructed(u) ==
    [button_map |-> u.button_map, container |-> u.container,
     buttons |-> u.buttons]

\* The widget has just been given the same Init twice in a row.
SameInitTwice ==
    /\ Len(fed.last) >= 2
    /\ fed.last[Len(fed.last)].type = "Init"
    /\ fed.last[Len(fed.last) - 1] = fed.last[Len(fed.last)]

\* C12. When the widget is given the same Init twice in a row, its button
\* map, container and buttons after the second are those after the first.
C12_SecondInitChangesNothing ==
    SameInitTwice => Reconstructed(ui) = Reconstructed(fed.prev)

C12_SameInitTwiceWithButtons ==
    /\ SameInitTwice
    /\ Len(fed.last) = 2
    /\ Len(ui.container) >= 2

\* A 'workspace destroyed' callback that is about to return.
DestroyDone(c) == h[c].pc = "done" /\ Unwrap(h[c].ev).kind = "destroyed"

\* C13. A 'workspace destroyed' event for name N emits Remove{name: N} and
\* nothing else, makes no workspace query, and leaves the cache as it was.
C13_DestroyEmitsRemoveOnly ==
    \A c \in 1..NCtx :
        DestroyDone(c) =>
            /\ h[c].out = << [type |-> "Remove", name |-> Unwrap(h[c].ev).name] >>
            /\ Cardinality({ i \in 1..Len(log) : src[i] = Unwrap(h[c].ev).seq }) = 1
            /\ h[c].queried = << >>
            /\ h[c].ws = None
            /\ active = h[c].entry

C13_DestroyDone == \E c \in 1..NCtx : DestroyDone(c) /\ IsSome(active)

\* A callback whose resolution query did not find the workspace its event
\* names, about to return.
Unresolved(c) ==
    /\ h[c].pc = "done"
    /\ Unwrap(h[c].ev).kind \in {"added", "workspace", "activemon", "moved"}
    /\ h[c].ws = None

\* C14. When the workspace named in a workspace-added, workspace-changed,
\* active-monitor-changed or workspace-moved event is not found, the event
\* is dropped: nothing is sent for it, the cache stays as it was, the
\* listener does not panic, and when the callback returns the guard is free
\* for the next event.
C14_UnresolvedEventIsDropped ==
    [][\A c \in 1..NCtx :
          Unresolved(c) =>
              /\ h[c].out = << >>
              /\ \A i \in 1..Len(log) : src[i] # Unwrap(h[c].ev).seq
              /\ active = h[c].entry
              /\ listener = "running"
              /\ h'[c].pc = "idle" =>
                    /\ guard' = 0
                    /\ listener' = "running"
                    /\ active' = active
                    /\ log' = log
      ]_vars

C14_DroppedWithNextWaiting ==
    \E c \in 1..NCtx : Unresolved(c) /\ pending # << >>

\* C15. When the listener cannot open the native socket at startup (or the
\* initial active-workspace query fails), no caller is handed an adapter:
\* there is no adapter without a running listener in a caller's hands.
C15_NoClientWithoutListener ==
    listener = "failed" => \A p \in 1..NCallers : caller[p].pc # "has"

\* C16. However many calls of get_client() / get_sub_client() are made, and
\* however they overlap, one adapter, one channel and one listener task are
\* created, and every call returns that one adapter.
C16_OneAdapterPerProcess ==
    /\ made.clients <= 1 /\ made.channels <= 1 /\ made.tasks <= 1
    /\ \A p \in 1..NCallers :
          caller[p].pc = "has" =>
              /\ caller[p].ref = 1
              /\ made.clients = 1 /\ made.channels = 1 /\ made.tasks = 1

C16_ThreeCallsTwoHolders ==
    /\ made.calls >= 3
    /\ \E p, q \in 1..NCallers :
          p # q /\ caller[p].pc = "has" /\ caller[q].pc = "has"

\* The updates in log that event number e produced, in order.
RECURSIVE SentFor(_, _)
SentFor(e, i) ==
    IF i > Len(log) THEN << >>
    ELSE (IF src[i] = e THEN << log[i] >> ELSE << >>) \o SentFor(e, i + 1)

\* C17. Dropping the subscribers does not stop the listener: for want of a
\* receiver no send fails and the listener neither stops nor panics (the
\* adapter keeps a receiver of its own), every update a callback sent is on
\* the channel, and a receiver created later is given all that follows.
C17_ListenerOutlivesSubscribers ==
    /\ SendOk
    /\ listener # "ended"
    /\ adapter = "A" => listener = "running"
    /\ \A c \in 1..NCtx :
          h[c].pc = "done" => SentFor(Unwrap(h[c].ev).seq, 1) = h[c].out
    /\ \A s \in 1..MaxSubs :
          sub[s].pc = "live" =>
              Inbox(s) = SubSeq(log, sub[s].start, Len(log))

\* The first receiver was dropped; an event was translated and sent while
\* no subscriber had a receiver; a receiver created after that has been
\* given its Init and a live update.
C17_SentWithNoSubscriberThenReceived ==
    /\ sub[1].pc = "dropped" /\ sub[2].pc = "live"
    /\ \E i \in (sub[1].end + 1) .. (sub[2].start - 1) : src[i] # 0
    /\ \E i \in 1..Len(Inbox(2)) : Inbox(2)[i].type # "Init"

\* C18. An error returned by focus() does not end the controller: after a
\* focus request has failed, the requests that follow are still received
\* and served.
C18_LaterRequestsAreServed ==
    ctl.errors > 0 => (ctl.pc = "running" /\ ctl.lost = 0)

\* The update C19 expects for a native event of Adapter B that carries a
\* node: the variant by the change kind, the workspace from the node's own
\* fields and flags.
TableUpdate(ev) ==
    LET node == Unwrap(ev.current)
    IN [type |-> IF ev.kind = "init" THEN "Add"
                 ELSE IF ev.kind = "move" THEN "Move"
                 ELSE "Update",
        ws |-> [id |-> IdToString(node.id),
                name |-> IF node.name = None THEN "" ELSE node.name[1],
                monitor |-> IF node.output = None THEN "" ELSE node.output[1],
                visibility |-> IF node.focused THEN Focused
                               ELSE IF node.visible = Some(TRUE) THEN Visible(TRUE)
                               ELSE Hidden]]

\* C19. Adapter B turns each native workspace event that it translates
\* (every change kind but 'empty' and 'focus') and that carries its node
\* into exactly one update: Add for 'init', Move for 'move', Update for
\* every other kind, holding the node converted by its focused and visible
\* flags.
C19_SwayTranslationTable ==
    [][(/\ adapter = "B" /\ listener = "running"
        /\ pending # << >> /\ pending' = Tail(pending)
        /\ Head(pending).kind \notin {"empty", "focus"}
        /\ IsSome(Head(pending).current)) =>
            /\ log' = Append(log, TableUpdate(Head(pending)))
            /\ src' = Append(src, Head(pending).seq)
            /\ listener' = "running"
      ]_vars

C19_MoveAndOtherKindTranslated ==
    /\ adapter = "B"
    /\ \E i, j \in 1..Len(log) :
          /\ src[i] # 0 /\ src[j] # 0
          /\ log[i].type = "Move" /\ log[i].ws.visibility = Visible(TRUE)
          /\ log[j].type = "Update"

\* Context c runs the callback of a window opened / closed / moved event.
WindowCallback(ctx) == ctx.pc # "idle" /\ Unwrap(ctx.ev).kind \in WindowKinds

\* C20. A window opened / closed / moved event emits one Update for each
\* workspace of the list its callback queried, in the list's order, and no
\* other update; no step of the callback changes the cache.
C20_WindowEventUpdatesEveryWorkspace ==
    [][\A c \in 1..NCtx :
          /\ (WindowCallback(h[c]) /\ h[c].pc = "done") =>
                /\ Len(h[c].out) = Len(h[c].list)
                /\ \A i \in 1..Len(h[c].out) :
                      /\ h[c].out[i].type = "Update"
                      /\ h[c].out[i].ws.id = IdToString(h[c].list[i].id)
                      /\ h[c].out[i].ws.name = h[c].list[i].name
                      /\ h[c].out[i].ws.monitor = h[c].list[i].monitor
                /\ SentFor(Unwrap(h[c].ev).seq, 1) = h[c].out
          /\ (h'[c] # h[c] /\ (WindowCallback(h[c]) \/ WindowCallback(h'[c]))) =>
                /\ active' = active
                /\ WindowCallback(h'[c]) => h'[c].list = IF WindowCallback(h[c]) THEN h[c].list ELSE SeqOfSet(hexists)
      ]_vars

C20_WindowEventDone ==
    \E c \in 1..NCtx :
        WindowCallback(h[c]) /\ h[c].pc = "done" /\ Len(h[c].out) >= 3

\* The visibility the shared rule gives a native workspace handle at this
\* moment: Focused when its name is the cached active workspace's name, else
\* Visible(true) when it is some monitor's active workspace, else Hidden.
SharedRule(hw) ==
    IF IsSome(active) /\ hw.name = Unwrap(active).name THEN Focused
    ELSE IF \E m \in Monitors : monActive[m] = hw.id THEN Visible(TRUE)
    ELSE Hidden

\* C21. Every Workspace Adapter A builds from a native workspace handle has
\* the visibility of the shared rule: the workspace a callback resolves when
\* it is entered, and each Update a window opened / closed / moved callback
\* sends.
C21_EveryVisibilityByTheSharedRule ==
    [][\A c \in 1..NCtx :
          /\ (h[c].pc = "idle" /\ h'[c].pc # "idle" /\ IsSome(h'[c].ws)) =>
                \E w \in hexists :
                    /\ Unwrap(h'[c].ws).id = IdToString(w)
                    /\ Unwrap(h'[c].ws).visibility = SharedRule(HWorkspace(w))
          /\ (h[c].pc = "batch" /\ Len(h'[c].out) = Len(h[c].out) + 1) =>
                h'[c].out[Len(h'[c].out)].ws.visibility
                    = SharedRule(Head(h[c].todo))
      ]_vars

\* An 'active monitor changed' callback that is about to return.
ActiveMonDone(c) == h[c].pc = "done" /\ Unwrap(h[c].ev).kind = "activemon"

\* C22. An 'active monitor changed' event whose workspace T resolves and is
\* not already focused emits Focus{old: the cache's value when the callback
\* was entered, new: T} and nothing else, and leaves T in the cache; when T
\* is already focused or is not found, nothing is emitted and the cache
\* stays as it was.
C22_ActiveMonitorEmitsOneFocus ==
    \A c \in 1..NCtx :
        ActiveMonDone(c) =>
            IF IsSome(h[c].ws) /\ ~is_focused(Unwrap(h[c].ws))
            THEN /\ IsSome(h[c].entry)
                 /\ h[c].out = << [type |-> "Focus", old |-> h[c].entry,
                                   new |-> Unwrap(h[c].ws)] >>
                 /\ SentFor(Unwrap(h[c].ev).seq, 1) = h[c].out
                 /\ active = h[c].ws
            ELSE /\ h[c].out = << >>
                 /\ SentFor(Unwrap(h[c].ev).seq, 1) = << >>
                 /\ active = h[c].entry

C22_ActiveMonitorFocusDone ==
    \E c \in 1..NCtx :
        /\ ActiveMonDone(c)
        /\ Len(h[c].out) = 1
        /\ Unwrap(h[c].entry).id # Unwrap(h[c].ws).id

\* The other case of C22: the workspace is the cached one already.
C22_ActiveMonitorAlreadyFocused ==
    \E c \in 1..NCtx :
        ActiveMonDone(c) /\ IsSome(h[c].ws) /\ is_focused(Unwrap(h[c].ws))

\* A 'workspace moved' callback that has resolved its workspace and is about
\* to return.
MovedDone(c) ==
    /\ h[c].pc = "done"
    /\ Unwrap(h[c].ev).kind = "moved"
    /\ IsSome(h[c].ws)
    /\ IsSome(h[c].entry)

\* C23. A 'workspace moved' event whose workspace T resolves emits Move(T)
\* first; when T is not the cached focused workspace P it then emits
\* Focus{old: Some(P), new: T} and leaves T in the cache; otherwise it emits
\* Move(T) only and leaves the cache as it was.
C23_MoveThenFocus ==
    \A c \in 1..NCtx :
        MovedDone(c) =>
            /\ SentFor(Unwrap(h[c].ev).seq, 1) = h[c].out
            /\ IF Unwrap(h[c].ws).name # Unwrap(h[c].entry).name
               THEN /\ h[c].out = << [type |-> "Move", ws |-> Unwrap(h[c].ws)],
                                     [type |-> "Focus", old |-> h[c].entry,
                                      new |-> Unwrap(h[c].ws)] >>
                    /\ active = h[c].ws
               ELSE /\ h[c].out = << [type |-> "Move", ws |-> Unwrap(h[c].ws)] >>
                    /\ active = h[c].entry

C23_MovedOtherThanCachedDone ==
    \E c \in 1..NCtx :
        /\ MovedDone(c)
        /\ Unwrap(h[c].ws).name # Unwrap(h[c].entry).name
        /\ Unwrap(h[c].ws).monitor # Unwrap(h[c].entry).monitor

\* The other case of C23: the cached workspace itself is moved.
C23_MovedCachedDone ==
    \E c \in 1..NCtx :
        MovedDone(c) /\ Unwrap(h[c].ws).name = Unwrap(h[c].entry).name

\* C24. Under Adapter A, once the listener has seeded the cache, the cache
\* holds a workspace in every state, and every Focus event sent carries a
\* present `old`.
C24_CacheNeverEmpty ==
    adapter = "A" =>
        /\ listener \notin {"none", "starting", "failed"} =>
              (IsSome(seeded) /\ IsSome(active))
        /\ \A j \in 1..Len(log) :
              log[j].type = "Focus" => IsSome(log[j].old)

C24_CacheReplacedAfterFocus ==
    /\ adapter = "A"
    /\ Count(log, "Focus") >= 1
    /\ IsSome(active) /\ active # seeded
    /\ \A c \in 1..NCtx : ~InCallback(c)

\* The cache is the `new` of the last Focus event sent, or the value it was
\* seeded with when no Focus event has been sent.
CacheIsLastFocus ==
    active =
        IF FocusBefore(Len(log) + 1) = {} THEN seeded
        ELSE Some(log[CHOOSE i \in FocusBefore(Len(log) + 1) :
                         \A k \in FocusBefore(Len(log) + 1) : k <= i].new)

\* C25. Under Adapter A the cache changes only together with the sending
\* of a Focus event: in every state it is the `new` of the last Focus sent,
\* or the seeded workspace when none was sent, and a step that changes it
\* is the seeding or sends Focus{old: the cache before, new: the cache
\* after}; no other step (workspace added, workspace destroyed, window
\* events, focus(), subscribe_workspace_change()) changes it.
C25_CacheChangesOnlyWithFocus ==
    [][/\ CacheIsLastFocus /\ CacheIsLastFocus'
       /\ active' # active =>
             \/ listener = "starting" /\ active = None /\ active' = seeded'
             \/ /\ log' = Append(log, [type |-> "Focus", old |-> active,
                                        new |-> Unwrap(active')])
                /\ \E c \in 1..NCtx :
                      /\ h[c].pc = "focus" /\ h'[c].pc = "done"
                      /\ Unwrap(h[c].ev).kind \in {"workspace", "activemon", "moved"}
      ]_vars

\* focus() was called, a module subscribed, events of every other kind were
\* handled or are being handled, and the cache has changed.
C25_CacheChangedAmongCalls ==
    /\ ctl.served >= 1
    /\ \E s \in 1..MaxSubs : sub[s].pc = "live"
    /\ Count(log, "Focus") >= 1
    /\ active # seeded

\* C26. Whenever Adapter A sends an Init while its cache holds a workspace,
\* the workspace the Init marks Focused, if there is one, is the workspace
\* in the cache at that moment (so that the next Focus event carries as
\* `old` the workspace the Init showed as focused).
C26_InitFocusedIsTheCached ==
    [][\A s \in 1..MaxSubs :
          (/\ adapter = "A" /\ IsSome(active)
           /\ sub[s].pc = "subscribed" /\ sub'[s].pc = "live") =>
              LET list == log'[Len(log')].list
              IN \A i \in 1..Len(list) :
                    list[i].visibility = Focused =>
                        list[i].id = Unwrap(active).id
      ]_vars

\* C27. After the module's receiver has fallen behind the channel's bound
\* and lost updates, its forwarding loop is still running, so that the
\* updates the channel still holds reach the widget.
C27_ForwardingSurvivesLag ==
    \A s \in 1..MaxSubs :
        sub[s].skipped # {} =>
            /\ sub[s].pc = "live"
            /\ \A i \in sub[s].pos .. Len(log) : i \notin sub[s].skipped

====
